---- MODULE Spec2Model ----
(***************************************************************************)
(* Credential and session gateway of src/main.py: password login that      *)
(* issues a signed, time-bounded bearer token (POST /token) and the gated  *)
(* endpoint GET /users/me whose dependency chain is                        *)
(*   oauth2_scheme -> get_current_user -> get_current_active_user.         *)
(*                                                                         *)
(* Time is counted in ticks, Res ticks to the second, so that the          *)
(* truncation of a datetime to whole seconds done by the JWT library is    *)
(* visible.  Python objects are records carrying a "type" field.           *)
(***************************************************************************)
EXTENDS Integers, Sequences, FiniteSets, TLC

\* ---------------------------------------------------------------- bounds
Res == 2
MaxFine == 2
MaxJumps == 2
NumReqs == 2

\* ------------------------------------------------------ program constants
ACCESS_TOKEN_EXPIRE_MINUTES == 30
DEFAULT_EXPIRE_MINUTES == 15

VARIABLES now, fake_users_db, settings, pc, inp, local, resp, hist, minted, verdict

vars == <<now, fake_users_db, settings, pc, inp, local, resp, hist, minted, verdict>>

Reqs == 1..NumReqs

\* ------------------------------------------------------- python values
PyNone == [type |-> "NoneType"]
PyFalse == [type |-> "bool", value |-> FALSE]

timedelta(ticks) == [type |-> "timedelta", ticks |-> ticks]

minutes(m) == timedelta(m * 60 * Res)

\* bool(x) of the objects that occur in conditions of the source
Truthy(x) ==
    CASE x.type = "NoneType" -> FALSE
      [] x.type = "bool" -> x.value
      [] x.type = "timedelta" -> x.ticks # 0
      [] OTHER -> TRUE

\* calendar.timegm(dt.utctimetuple()): whole seconds, the fraction is dropped
timegm(t) == t \div Res

\* ------------------------------------------------------- password hashing
\* passlib bcrypt: the hash string carries the salt; verify re-hashes the
\* candidate under that salt and compares.
bcrypt(password, salt) == [scheme |-> "2b", salt |-> salt, digest |-> <<salt, password>>]

\* a verify that recognises the hash scheme and never compares the digest
verify_password_scheme_only(plain_password, hashed_password) ==
    hashed_password.scheme = "2b"

verify_password(plain_password, hashed_password) ==
    bcrypt(plain_password, hashed_password.salt) = hashed_password

fake_hash_password(password) ==
    [scheme |-> "fake", salt |-> "", digest |-> <<"fakehashed", password>>]

\* ------------------------------------------------------------ user store
\* the password whose bcrypt hash the store holds for each user
PlainPassword == [u \in {"johndoe"} |-> "secret"]

JohnDoe ==
    [username |-> "johndoe",
     full_name |-> "John Doe",
     email |-> "johndoe@example.com",
     hashed_password |-> bcrypt(PlainPassword["johndoe"], "EixZaYVK1fsbw1ZfbX3OXe"),
     disabled |-> FALSE]

UserInDB(user_dict) ==
    [type |-> "UserInDB",
     username |-> user_dict.username,
     email |-> user_dict.email,
     full_name |-> user_dict.full_name,
     disabled |-> user_dict.disabled,
     hashed_password |-> user_dict.hashed_password]

get_user(db, username) ==
    IF username \in DOMAIN db THEN UserInDB(db[username]) ELSE PyNone

\* an authenticate that hands back get_user's None for an unknown user
authenticate_user_none(db, username, password) ==
    LET user == get_user(db, username) IN
    IF ~Truthy(user) THEN user
    ELSE IF ~verify_password(password, user.hashed_password) THEN PyFalse
    ELSE user

authenticate_user(db, username, password) ==
    LET user == get_user(db, username) IN
    IF ~Truthy(user) THEN PyFalse
    ELSE IF ~verify_password(password, user.hashed_password) THEN PyFalse
    ELSE user

\* ------------------------------------------------------------------ JWT
\* HS256 tag over header and payload under a key (an ideal MAC)
hmac(key, alg, payload) == [key |-> key, alg |-> alg, msg |-> payload]

\* jose.jws.sign: the compact token, header.payload.signature
jws_sign(payload, key, algorithm) ==
    [form |-> "jws", alg |-> algorithm, payload |-> payload,
     sig |-> hmac(key, algorithm, payload)]

\* jose.jwt.encode: a datetime "exp" becomes whole seconds, then sign
jwt_encode(claims, key, algorithm) ==
    LET payload == [k \in DOMAIN claims |->
                        IF k = "exp" THEN timegm(claims[k]) ELSE claims[k]]
    IN jws_sign(payload, key, algorithm)

\* jose.jwt.decode: structure, algorithm, signature, then the exp claim
\* against the clock in whole seconds
jwt_decode(token, key, algorithms, t) ==
    IF token.form # "jws" THEN [ok |-> FALSE, exc |-> "JWTError"]
    ELSE IF token.alg \notin algorithms THEN [ok |-> FALSE, exc |-> "JWTError"]
    ELSE IF token.sig # hmac(key, token.alg, token.payload)
        THEN [ok |-> FALSE, exc |-> "JWTError"]
    ELSE IF "exp" \in DOMAIN token.payload /\ token.payload["exp"] < timegm(t)
        THEN [ok |-> FALSE, exc |-> "ExpiredSignatureError"]
    ELSE [ok |-> TRUE, payload |-> token.payload]

\* an issuer that forgets to add the lifetime to the clock
create_access_token_no_delta(data, expires_delta, cfg, t) ==
    LET to_encode == [k \in DOMAIN data \cup {"exp"} |->
                          IF k = "exp" THEN t ELSE data[k]]
    IN jwt_encode(to_encode, cfg.SECRET_KEY, cfg.ALGORITHM)

create_access_token(data, expires_delta, cfg, t) ==
    LET expire == IF Truthy(expires_delta)
                  THEN t + expires_delta.ticks
                  ELSE t + minutes(DEFAULT_EXPIRE_MINUTES).ticks
        to_encode == [k \in DOMAIN data \cup {"exp"} |->
                          IF k = "exp" THEN expire ELSE data[k]]
    IN jwt_encode(to_encode, cfg.SECRET_KEY, cfg.ALGORITHM)

\* -------------------------------------------------------- HTTP responses
Bearer == {<<"WWW-Authenticate", "Bearer">>}

HTTPException(status_code, detail, headers) ==
    [status |-> status_code, body |-> [detail |-> detail], headers |-> headers]

JSON200(content) == [status |-> 200, body |-> content, headers |-> {}]

\* ------------------------------------------------------- POST /token
OAuth2PasswordRequestForm(username, password) ==
    [username |-> username, password |-> password]

login_for_access_token(form_data, db, cfg, t) ==
    LET user == authenticate_user(db, form_data.username, form_data.password) IN
    IF ~Truthy(user)
    THEN HTTPException(401, "Incorrect username or password", Bearer)
    ELSE LET access_token_expires == minutes(cfg.ACCESS_TOKEN_EXPIRE_MINUTES)
             access_token == create_access_token([sub |-> user.username],
                                                 access_token_expires, cfg, t)
         IN JSON200([access_token |-> access_token, token_type |-> "bearer"])

\* the earlier tutorial step, registered after login_for_access_token on the
\* same method and path
login(form_data, db, cfg, t) ==
    IF form_data.username \notin DOMAIN db
    THEN HTTPException(400, "Incorrect username or password", {})
    ELSE LET user == UserInDB(db[form_data.username])
             hashed_password == fake_hash_password(form_data.password)
         IN IF hashed_password # user.hashed_password
            THEN HTTPException(400, "Incorrect username or password", {})
            ELSE JSON200([access_token |-> user.username, token_type |-> "bearer"])

\* the route table in registration order; the router serves a request with
\* the first route whose method and path match
routes ==
    << [method |-> "POST", path |-> "/token", endpoint |-> "login_for_access_token"],
       [method |-> "POST", path |-> "/token", endpoint |-> "login"],
       [method |-> "GET", path |-> "/users/me", endpoint |-> "read_users_me"] >>

\* a router that lets the route registered last win
route_last(method, path) ==
    LET hits == {i \in DOMAIN routes :
                    routes[i].method = method /\ routes[i].path = path}
        last == CHOOSE i \in hits : \A j \in hits : i >= j
    IN routes[last].endpoint

route(method, path) ==
    LET hits == {i \in DOMAIN routes :
                    routes[i].method = method /\ routes[i].path = path}
        first == CHOOSE i \in hits : \A j \in hits : i <= j
    IN routes[first].endpoint

post_token(form_data, db, cfg, t) ==
    IF route("POST", "/token") = "login_for_access_token"
    THEN login_for_access_token(form_data, db, cfg, t)
    ELSE login(form_data, db, cfg, t)

\* ------------------------------------------------ GET /users/me, staged
credentials_exception == HTTPException(401, "Could not validate credentials", Bearer)

\* OAuth2PasswordBearer(tokenUrl="token"): the bearer parameter of the
\* Authorization header, or 401 when the header is absent or not a bearer one
oauth2_scheme(authorization) ==
    IF authorization.type = "NoneType" \/ authorization.scheme # "Bearer"
    THEN [ok |-> FALSE, exc |-> "NotAuthenticated",
          response |-> HTTPException(401, "Not authenticated", Bearer)]
    ELSE [ok |-> TRUE, token |-> authorization.param]

\* a decode that reads the claims without verifying the signature
get_current_user_decode_unverified(token, cfg, t) ==
    IF token.form # "jws"
    THEN [ok |-> FALSE, exc |-> "JWTError", response |-> credentials_exception]
    ELSE IF "exp" \in DOMAIN token.payload /\ token.payload["exp"] < timegm(t)
    THEN [ok |-> FALSE, exc |-> "ExpiredSignatureError", response |-> credentials_exception]
    ELSE IF "sub" \notin DOMAIN token.payload
    THEN [ok |-> FALSE, exc |-> "NoSubject", response |-> credentials_exception]
    ELSE [ok |-> TRUE, username |-> token.payload["sub"]]

\* get_current_user up to the construction of token_data: the try block
get_current_user_decode(token, cfg, t) ==
    LET decoded == jwt_decode(token, cfg.SECRET_KEY, {cfg.ALGORITHM}, t) IN
    IF ~decoded.ok
    THEN [ok |-> FALSE, exc |-> decoded.exc, response |-> credentials_exception]
    ELSE IF "sub" \notin DOMAIN decoded.payload
    THEN [ok |-> FALSE, exc |-> "NoSubject", response |-> credentials_exception]
    ELSE [ok |-> TRUE, username |-> decoded.payload["sub"]]

\* a loader that falls back to a default record for an unknown subject
get_current_user_load_default(db, username) ==
    IF username \in DOMAIN db
    THEN [ok |-> TRUE, user |-> UserInDB(db[username])]
    ELSE [ok |-> TRUE, user |-> UserInDB([JohnDoe EXCEPT !.username = username])]

\* get_current_user after the try block: load the user
get_current_user_load(db, username) ==
    LET user == get_user(db, username) IN
    IF user = PyNone
    THEN [ok |-> FALSE, exc |-> "UnknownUser", response |-> credentials_exception]
    ELSE [ok |-> TRUE, user |-> user]

\* a gate that lets every loaded user through
get_current_active_user_open(current_user) == [ok |-> TRUE, user |-> current_user]

\* a gate that answers an inactive user with the credentials error
get_current_active_user_401(current_user) ==
    IF current_user.disabled = TRUE
    THEN [ok |-> FALSE, exc |-> "InactiveUser", response |-> credentials_exception]
    ELSE [ok |-> TRUE, user |-> current_user]

get_current_active_user(current_user) ==
    IF current_user.disabled = TRUE
    THEN [ok |-> FALSE, exc |-> "InactiveUser",
          response |-> HTTPException(400, "Inactive user", {})]
    ELSE [ok |-> TRUE, user |-> current_user]

read_users_me(current_user) == JSON200(current_user)

\* the whole dependency chain of GET /users/me run in one piece
users_me_alone(authorization, db, cfg, t) ==
    LET cred == oauth2_scheme(authorization) IN
    IF ~cred.ok THEN cred.response ELSE
    LET dec == get_current_user_decode(cred.token, cfg, t) IN
    IF ~dec.ok THEN dec.response ELSE
    LET got == get_current_user_load(db, dec.username) IN
    IF ~got.ok THEN got.response ELSE
    LET act == get_current_active_user(got.user) IN
    IF ~act.ok THEN act.response ELSE read_users_me(act.user)

\* ------------------------------------------------------------- inputs
Usernames == {"johndoe", "ghost"}

Passwords == {"secret", "secreT", ""}

JumpTicks == minutes(DEFAULT_EXPIRE_MINUTES).ticks

\* the second at which a token handed out at the epoch by POST /token expires
FarExp == timegm(minutes(ACCESS_TOKEN_EXPIRE_MINUTES).ticks)

\* token strings a client may present at time t: validly signed ones of a
\* stored user around the expiry boundary, validly signed ones with an unknown
\* subject and with no subject, one signed under another key, one whose
\* payload was altered after signing, one under another algorithm, and one
\* that is no JWS at all
TokenInputs(cfg, t) ==
    LET sec == timegm(t)
        K == cfg.SECRET_KEY
        A == cfg.ALGORITHM
        good == [sub |-> "johndoe", exp |-> FarExp]
    IN  {jws_sign([sub |-> "johndoe", exp |-> e], K, A) : e \in {sec - 1, sec}}
        \cup {jws_sign([sub |-> "ghost", exp |-> FarExp], K, A),
              jws_sign([exp |-> FarExp], K, A),
              jws_sign(good, "attacker-key", A),
              [jws_sign([sub |-> "ghost", exp |-> FarExp], K, A)
                   EXCEPT !.payload = good],
              jws_sign(good, K, "HS384"),
              [form |-> "garbage"]}

BearerHeader(token) == [type |-> "str", scheme |-> "Bearer", param |-> token]

\* tokens handed out by POST /token that are still held in a response
IssuedTokens ==
    {resp[r].body.access_token : r \in {q \in Reqs : pc[q] = "LoginDone" /\ resp[q].status = 200}}

AuthorizationInputs ==
    {PyNone, [type |-> "str", scheme |-> "Basic", param |-> [form |-> "garbage"]]}
    \cup {BearerHeader(tok) : tok \in TokenInputs(settings, now) \cup IssuedTokens}

ExpiresDeltaInputs ==
    {PyNone, timedelta(0 - Res), timedelta(0), timedelta(1), timedelta(2),
     minutes(DEFAULT_EXPIRE_MINUTES)}

DataInputs == {[sub |-> "johndoe"], [sub |-> "ghost"], [k \in {} |-> ""]}

Terminal == {"ActiveUserConfirmed", "Rejected", "LoginDone"}

InFlight(r) == pc[r] \in {"TokenPresented", "Verified", "IdentityResolved"}

\* ---------------------------------------------------------------- Init
Init ==
    /\ now = 0
    /\ fake_users_db = [u \in {"johndoe"} |-> JohnDoe]
    /\ settings = [SECRET_KEY |-> "09d25e094faa6ca2556c818166b7a9563b93f7099f6f0f4caa6cf63b88e8d3e7",
                   ALGORITHM |-> "HS256",
                   ACCESS_TOKEN_EXPIRE_MINUTES |-> ACCESS_TOKEN_EXPIRE_MINUTES]
    /\ pc = [r \in Reqs |-> "idle"]
    /\ inp = [r \in Reqs |-> PyNone]
    /\ local = [r \in Reqs |-> PyNone]
    /\ resp = [r \in Reqs |-> PyNone]
    /\ hist = [r \in Reqs |-> << >>]
    /\ minted = PyNone
    /\ verdict = PyNone

\* ------------------------------------------------------------- the clock
Tick ==
    /\ now % JumpTicks < MaxFine
    /\ now' = now + 1
    /\ UNCHANGED <<fake_users_db, settings, pc, inp, local, resp, hist, minted, verdict>>

Jump ==
    /\ now \div JumpTicks < MaxJumps
    /\ now' = now + JumpTicks
    /\ UNCHANGED <<fake_users_db, settings, pc, inp, local, resp, hist, minted, verdict>>

\* ------------------------------------------------------ administration
\* an administrative process outside the gateway flips a user's disabled
\* flag; the handlers are coroutines without a suspension point, so the flip
\* falls between requests, never inside a dependency chain
AdminSetDisabled(u) ==
    /\ \A r \in Reqs : ~InFlight(r)
    /\ u \in DOMAIN fake_users_db
    /\ fake_users_db' = [fake_users_db EXCEPT ![u].disabled = ~@]
    /\ UNCHANGED <<now, settings, pc, inp, local, resp, hist, minted, verdict>>

\* ---------------------------------------------------------- POST /token
\* a login that re-activates the account it has just authenticated
PostToken_reactivate(r, username, password) ==
    /\ pc[r] = "idle"
    /\ LET form_data == OAuth2PasswordRequestForm(username, password)
           user == authenticate_user(fake_users_db, username, password)
       IN
       /\ inp' = [inp EXCEPT ![r] = form_data]
       /\ local' = [local EXCEPT ![r] = [user |-> user]]
       /\ resp' = [resp EXCEPT ![r] = post_token(form_data, fake_users_db, settings, now)]
       /\ fake_users_db' = IF Truthy(user)
                           THEN [fake_users_db EXCEPT ![username].disabled = FALSE]
                           ELSE fake_users_db
    /\ pc' = [pc EXCEPT ![r] = "LoginDone"]
    /\ hist' = [hist EXCEPT ![r] = <<"LoginDone">>]
    /\ UNCHANGED <<now, settings, minted, verdict>>

PostToken(r, username, password) ==
    /\ pc[r] = "idle"
    /\ LET form_data == OAuth2PasswordRequestForm(username, password) IN
       /\ inp' = [inp EXCEPT ![r] = form_data]
       /\ local' = [local EXCEPT ![r] =
                       [user |-> authenticate_user(fake_users_db, username, password)]]
       /\ resp' = [resp EXCEPT ![r] = post_token(form_data, fake_users_db, settings, now)]
    /\ pc' = [pc EXCEPT ![r] = "LoginDone"]
    /\ hist' = [hist EXCEPT ![r] = <<"LoginDone">>]
    /\ UNCHANGED <<now, fake_users_db, settings, minted, verdict>>

\* --------------------------------------------------------- GET /users/me
GetUsersMe(r, authorization) ==
    /\ pc[r] = "idle"
    /\ inp' = [inp EXCEPT ![r] = authorization]
    /\ pc' = [pc EXCEPT ![r] = "TokenPresented"]
    /\ hist' = [hist EXCEPT ![r] = <<"TokenPresented">>]
    /\ UNCHANGED <<now, fake_users_db, settings, local, resp, minted, verdict>>

Reject(r, failure) ==
    /\ pc' = [pc EXCEPT ![r] = "Rejected"]
    /\ local' = [local EXCEPT ![r] =
                    [exc |-> failure.exc,
                     at |-> IF pc[r] = "TokenPresented" THEN timegm(now) ELSE local[r].at]]
    /\ resp' = [resp EXCEPT ![r] = failure.response]
    /\ hist' = [hist EXCEPT ![r] = Append(@, "Rejected")]

Proceed(r, stage, locals) ==
    /\ pc' = [pc EXCEPT ![r] = stage]
    /\ local' = [local EXCEPT ![r] = locals]
    /\ hist' = [hist EXCEPT ![r] = Append(@, stage)]

\* oauth2_scheme, then the try block of get_current_user; "at" keeps the clock
\* reading of jwt.decode, which is in whole seconds
VerifyToken(r) ==
    /\ pc[r] = "TokenPresented"
    /\ LET cred == oauth2_scheme(inp[r]) IN
       IF ~cred.ok THEN Reject(r, cred)
       ELSE LET dec == get_current_user_decode(cred.token, settings, now) IN
            IF ~dec.ok THEN Reject(r, dec)
            ELSE /\ Proceed(r, "Verified", [username |-> dec.username, at |-> timegm(now)])
                 /\ UNCHANGED resp
    /\ UNCHANGED <<now, fake_users_db, settings, inp, minted, verdict>>

\* get_current_user after the try block
ResolveIdentity(r) ==
    /\ pc[r] = "Verified"
    /\ LET got == get_current_user_load(fake_users_db, local[r].username) IN
       IF ~got.ok THEN Reject(r, got)
       ELSE /\ Proceed(r, "IdentityResolved", [user |-> got.user, at |-> local[r].at])
            /\ UNCHANGED resp
    /\ UNCHANGED <<now, fake_users_db, settings, inp, minted, verdict>>

\* get_current_active_user, then the endpoint body
ActiveUserGate(r) ==
    /\ pc[r] = "IdentityResolved"
    /\ LET act == get_current_active_user(local[r].user) IN
       IF ~act.ok THEN Reject(r, act)
       ELSE /\ Proceed(r, "ActiveUserConfirmed", [user |-> act.user, at |-> local[r].at])
            /\ resp' = [resp EXCEPT ![r] = read_users_me(act.user)]
    /\ UNCHANGED <<now, fake_users_db, settings, inp, minted, verdict>>

\* the response is sent and the request is over
Respond(r) ==
    /\ pc[r] \in Terminal
    /\ pc' = [pc EXCEPT ![r] = "idle"]
    /\ inp' = [inp EXCEPT ![r] = PyNone]
    /\ local' = [local EXCEPT ![r] = PyNone]
    /\ resp' = [resp EXCEPT ![r] = PyNone]
    /\ hist' = [hist EXCEPT ![r] = << >>]
    /\ UNCHANGED <<now, fake_users_db, settings, minted, verdict>>

Login == \E r \in Reqs, u \in Usernames, p \in Passwords : PostToken(r, u, p)

Present == \E r \in Reqs, a \in AuthorizationInputs : GetUsersMe(r, a)

Verify == \E r \in Reqs : VerifyToken(r)

Resolve == \E r \in Reqs : ResolveIdentity(r)

Gate == \E r \in Reqs : ActiveUserGate(r)

Finish == \E r \in Reqs : Respond(r)

Admin == \E u \in Usernames : AdminSetDisabled(u)

Next == Tick \/ Admin \/ Login \/ Present \/ Verify \/ Resolve \/ Gate \/ Finish

Spec == Init /\ [][Next]_vars

\* ------------------------------------- the token functions on their own
\* create_access_token called with any data and any expires_delta
CreateToken(data, expires_delta) ==
    /\ minted' = [type |-> "minted", data |-> data, expires_delta |-> expires_delta,
                  at |-> now,
                  token |-> create_access_token(data, expires_delta, settings, now)]
    /\ verdict' = PyNone
    /\ UNCHANGED <<now, fake_users_db, settings, pc, inp, local, resp, hist>>

\* the decode step of get_current_user applied to the minted token
CheckToken ==
    /\ minted # PyNone
    /\ verdict' = [type |-> "verdict", at |-> now,
                   jwt |-> jwt_decode(minted.token, settings.SECRET_KEY,
                                      {settings.ALGORITHM}, now),
                   result |-> get_current_user_decode(minted.token, settings, now)]
    /\ UNCHANGED <<now, fake_users_db, settings, pc, inp, local, resp, hist, minted>>

Issue == \E d \in DataInputs, e \in ExpiresDeltaInputs : CreateToken(d, e)

NextToken == Tick \/ Jump \/ Issue \/ CheckToken

SpecToken == Init /\ [][NextToken]_vars

\* ------------------------------------------------------------ properties
Gated(r) == pc[r] \in {"Verified", "IdentityResolved", "ActiveUserConfirmed", "Rejected"}

\* the exception that ended the request, if one did
Exc(r) == IF pc[r] = "Rejected" THEN local[r].exc ELSE "none"

\* the request carried a bearer token and the decode step has run on it
Decoded(r) == Gated(r) /\ inp[r].type = "str" /\ inp[r].scheme = "Bearer"

\* jwt.decode returned a payload (whatever the later stages made of it)
DecodeAccepted(r) ==
    \/ pc[r] \in {"Verified", "IdentityResolved", "ActiveUserConfirmed"}
    \/ Exc(r) \in {"NoSubject", "UnknownUser", "InactiveUser"}

SignedWithCurrent(token) ==
    /\ token.form = "jws"
    /\ token.alg = settings.ALGORITHM
    /\ token.sig = hmac(settings.SECRET_KEY, settings.ALGORITHM, token.payload)

\* the expiry instant of the token has been reached when the clock reads
\* second sec (the clock is then at or after sec * Res ticks)
ExpiryReached(token, sec) == sec * Res >= token.payload["exp"] * Res

\* the clock second sec is past the expiry second of the token
ExpirySecondPassed(token, sec) == sec > token.payload["exp"]

IsError(response) == response.status >= 400

ValidLogin(form_data) ==
    /\ form_data.username \in DOMAIN fake_users_db
    /\ form_data.password = PlainPassword[form_data.username]

\* C1: a request to the gated endpoint never becomes ActiveUserConfirmed for
\* a user whose disabled flag is true in the store at that moment, after any
\* sequence of logins, presentations and administrative flips
C1_DisabledNeverConfirmed ==
    [][\A r \in Reqs :
          (pc[r] # "ActiveUserConfirmed" /\ pc'[r] = "ActiveUserConfirmed")
          => /\ resp'[r].body.username \in DOMAIN fake_users_db'
             /\ fake_users_db'[resp'[r].body.username].disabled = FALSE]_vars

\* C1 witness: a validly presented token of a user whom an administrative
\* flip disabled was turned away at the gate
C1_Witness ==
    \E r \in Reqs :
        /\ pc[r] = "Rejected" /\ Exc(r) = "InactiveUser"
        /\ SignedWithCurrent(inp[r].param)
        /\ fake_users_db["johndoe"].disabled = TRUE

\* C2: the decode step returns subject u for the token of
\* create_access_token({sub: u}, ttl), ttl positive, at any time before
\* issuance + ttl
C2_RoundTrip ==
    (/\ verdict # PyNone
     /\ "sub" \in DOMAIN minted.data
     /\ minted.expires_delta # PyNone
     /\ minted.expires_delta.ticks > 0
     /\ verdict.at < minted.at + minted.expires_delta.ticks)
    => (verdict.result.ok /\ verdict.result.username = minted.data["sub"])

\* C2 witness: a token with a lifetime of two ticks verified one tick after
\* issuance, in a later clock second than the one it was issued in
C2_Witness ==
    /\ verdict # PyNone
    /\ minted.data = [sub |-> "johndoe"]
    /\ minted.expires_delta = timedelta(2)
    /\ verdict.at = minted.at + 1
    /\ timegm(verdict.at) > timegm(minted.at)
    /\ verdict.result.ok

\* C3: a token issued with ttl = 0, or with an expiry already elapsed, fails
\* the decode step with the expired-token error at issuance and ever after
C3_ZeroTtlExpired ==
    (/\ verdict # PyNone
     /\ minted.expires_delta # PyNone
     /\ minted.expires_delta.ticks <= 0)
    => (~verdict.jwt.ok /\ verdict.jwt.exc = "ExpiredSignatureError")

\* C4: a login for a username absent from the store and a login for a stored
\* username with a wrong password have the same authenticate_user result and
\* the same response (status, detail, headers), and it is a failure
C4_EnumerationResistance ==
    \A r1, r2 \in Reqs :
        (/\ pc[r1] = "LoginDone" /\ pc[r2] = "LoginDone"
         /\ inp[r1].username \notin DOMAIN fake_users_db
         /\ inp[r2].username \in DOMAIN fake_users_db
         /\ inp[r2].password # PlainPassword[inp[r2].username])
        => /\ local[r1].user = local[r2].user
           /\ resp[r1] = resp[r2]
           /\ IsError(resp[r1])

\* C4 witness: both logins have been answered side by side
C4_Witness ==
    \E r1, r2 \in Reqs :
        /\ pc[r1] = "LoginDone" /\ pc[r2] = "LoginDone"
        /\ inp[r1] = OAuth2PasswordRequestForm("ghost", "secret")
        /\ inp[r2] = OAuth2PasswordRequestForm("johndoe", "secreT")

\* C5: authenticate_user returns the stored user record when the username is
\* in the store and the password is the one its hash was made from, and the
\* failure value for every other password
C5_Authenticate ==
    [][\A r \in Reqs :
          (pc[r] = "idle" /\ pc'[r] = "LoginDone")
          => IF inp'[r].username \in DOMAIN fake_users_db
             THEN IF inp'[r].password = PlainPassword[inp'[r].username]
                  THEN local'[r].user = UserInDB(fake_users_db[inp'[r].username])
                  ELSE local'[r].user = PyFalse
             ELSE local'[r].user = PyFalse]_vars

\* C5 witness: the right password got the record while a one-character
\* mutation of it got the failure value
C5_Witness ==
    \E r1, r2 \in Reqs :
        /\ pc[r1] = "LoginDone" /\ pc[r2] = "LoginDone"
        /\ inp[r1] = OAuth2PasswordRequestForm("johndoe", "secret")
        /\ local[r1].user.type = "UserInDB"
        /\ inp[r2] = OAuth2PasswordRequestForm("johndoe", "secreT")
        /\ local[r2].user = PyFalse

\* C6: POST /token answers a successful authentication with a bearer token
\* signed under the secret whose subject is the username, and every failed
\* one with 401 carrying WWW-Authenticate: Bearer and no token
C6_LoginResponse ==
    \A r \in Reqs :
        pc[r] = "LoginDone"
        => IF ValidLogin(inp[r])
           THEN /\ resp[r].status = 200
                /\ resp[r].body.token_type = "bearer"
                /\ SignedWithCurrent(resp[r].body.access_token)
                /\ resp[r].body.access_token.payload["sub"] = inp[r].username
           ELSE /\ resp[r].status = 401
                /\ <<"WWW-Authenticate", "Bearer">> \in resp[r].headers
                /\ "access_token" \notin DOMAIN resp[r].body

\* C6 witness: one login was answered with a token, another with the 401
C6_Witness ==
    \E r1, r2 \in Reqs :
        /\ pc[r1] = "LoginDone" /\ resp[r1].status = 200
        /\ pc[r2] = "LoginDone" /\ resp[r2].status = 401

\* C7: on the gated endpoint a failure of token verification (no
\* Authorization header, bad signature, malformed token, no subject, expired)
\* is a 401 with the Bearer hint, a valid token of a disabled user is a 400,
\* and neither is ever answered as the other
C7_FailureClasses ==
    \A r \in Reqs :
        pc[r] = "Rejected"
        => /\ hist[r] = <<"TokenPresented", "Rejected">>
              => /\ resp[r].status = 401
                 /\ <<"WWW-Authenticate", "Bearer">> \in resp[r].headers
           /\ hist[r] = <<"TokenPresented", "Verified", "IdentityResolved", "Rejected">>
              => /\ resp[r].status = 400
                 /\ resp[r].body.detail = "Inactive user"
           /\ resp[r].status = 400
              => /\ Decoded(r)
                 /\ SignedWithCurrent(inp[r].param)
                 /\ ~ExpirySecondPassed(inp[r].param, local[r].at)
                 /\ hist[r] = <<"TokenPresented", "Verified", "IdentityResolved", "Rejected">>

\* C7 witness: an expired token was answered 401 while the valid token of a
\* disabled user was answered 400
C7_Witness ==
    \E r1, r2 \in Reqs :
        /\ pc[r1] = "Rejected" /\ Exc(r1) = "ExpiredSignatureError"
        /\ resp[r1].status = 401
        /\ pc[r2] = "Rejected" /\ Exc(r2) = "InactiveUser"
        /\ resp[r2].status = 400

StagePaths ==
    LET full == <<"TokenPresented", "Verified", "IdentityResolved", "ActiveUserConfirmed">>
    IN  {SubSeq(full, 1, n) : n \in 0..4}
        \cup {Append(SubSeq(full, 1, n), "Rejected") : n \in 1..3}
        \cup {<<"LoginDone">>}

\* C9: a request passes the stages in the order TokenPresented, Verified,
\* IdentityResolved, ActiveUserConfirmed, each at most once, and ends in one
\* terminal state; IdentityResolved and ActiveUserConfirmed are reached only
\* with a verified token whose subject is in the store, and after Rejected
\* nothing more runs
C9_StageOrder ==
    \A r \in Reqs :
        /\ hist[r] \in StagePaths
        /\ pc[r] = IF hist[r] = << >> THEN "idle" ELSE hist[r][Len(hist[r])]
        /\ pc[r] \in {"IdentityResolved", "ActiveUserConfirmed"}
           => /\ SignedWithCurrent(inp[r].param)
              /\ ~ExpirySecondPassed(inp[r].param, local[r].at)
              /\ inp[r].param.payload["sub"] \in DOMAIN fake_users_db
              /\ local[r].user.username = inp[r].param.payload["sub"]
        /\ (Decoded(r) /\ DecodeAccepted(r)
            /\ "sub" \in DOMAIN inp[r].param.payload
            /\ inp[r].param.payload["sub"] \notin DOMAIN fake_users_db
            /\ pc[r] # "Verified")
           => hist[r] = <<"TokenPresented", "Verified", "Rejected">>

\* C9 witness: a verified token whose subject is not in the store was
\* diverted after Verified, while another request ran all four stages
C9_Witness ==
    \E r1, r2 \in Reqs :
        /\ hist[r1] = <<"TokenPresented", "Verified", "Rejected">>
        /\ Exc(r1) = "UnknownUser"
        /\ hist[r2] = <<"TokenPresented", "Verified", "IdentityResolved",
                        "ActiveUserConfirmed">>

\* C10: no step of a request changes the user store or the signing settings,
\* and a request that ends, however its stages were interleaved with other
\* requests, ends with the response it gets when run in one piece against
\* the same store and the clock value it read
C10_Independent ==
    [][\A r \in Reqs :
          /\ pc'[r] # pc[r]
             => fake_users_db' = fake_users_db /\ settings' = settings
          /\ (pc'[r] \in {"ActiveUserConfirmed", "Rejected"} /\ pc[r] # pc'[r])
             => resp'[r] = users_me_alone(inp[r], fake_users_db, settings,
                                          local'[r].at * Res)
          /\ (pc'[r] = "LoginDone" /\ pc[r] # pc'[r])
             => /\ local'[r].user = authenticate_user(fake_users_db, inp'[r].username,
                                                      inp'[r].password)
                /\ resp'[r] = login_for_access_token(inp'[r], fake_users_db, settings, now)
       ]_vars

\* C10 witness: a login for a username was answered while a request bearing
\* a token of the same username was between its stages, the token having
\* been verified at an earlier clock value
C10_Witness ==
    \E r1, r2 \in Reqs :
        /\ pc[r1] = "Verified" /\ local[r1].at < timegm(now)
        /\ pc[r2] = "LoginDone" /\ resp[r2].status = 200
        /\ inp[r2].username = local[r1].username

====
